---- MODULE Spec2Model ----
(***************************************************************************)
(* A model of the fermentation crate: forward decay (src/src/lib.rs),      *)
(* weighting functions (src/src/g.rs), the BTreeSpaceSaving counter       *)
(* (src/src/space_saving.rs), the BasicAggregator                          *)
(* (src/src/aggregate/basic.rs), the MinMaxAggregator                      *)
(* (src/src/aggregate/minmax.rs) and the SignAggregator                    *)
(* (src/src/aggregate/sign.rs).                                            *)
(*                                                                         *)
(* Numbers.  The crate computes in f64.  The model computes exactly, in    *)
(* fixed point: an integer n stands for the real n / Scale, Scale a power  *)
(* of two.  Exponential decay is modelled with alpha = ln 2, so that       *)
(* g(age) = 2^age and every weight, count and rescaled count is a dyadic   *)
(* rational the fixed point holds without rounding (ExactArithmetic is the *)
(* invariant that no division in the model ever dropped a remainder).      *)
(* Instants are whole seconds 0..MaxTime.  The decay model on its own and  *)
(* the aggregator compute in exact fractions instead (see F below).        *)
(***************************************************************************)
EXTENDS Integers, FiniteSets, Sequences, TLC

\* ---------------------------------------------------------------- bounds
MaxTime == 1
MaxHits == 6
MaxStream == 12
MaxRescales == 1
MaxCapacity == 3
NumKeys == 5
MaxInstant == 11
MaxItemTime == 3
MaxItems == 2

Times == 0..MaxTime
Keys == 1..NumKeys

\* The instants of the calls on a decay model alone, and the instants of the
\* items, landmarks and queries of an aggregator.
Instants == 0..MaxInstant
ItemTimes == 0..MaxItemTime

\* The values items carry, and the items (Instant, f64) of a stream.
Values == {3, 4}
Items == ItemTimes \X Values

RECURSIVE Pow2(_)
Pow2(n) == IF n <= 0 THEN 1 ELSE 2 * Pow2(n - 1)

\* Binary digits kept after the point.  A weight is 2^(t - L), t and L in
\* Times; every rescale can shift a count down by MaxTime more digits, and a
\* query divides by a normalizing factor of at most 2^MaxTime.
FracBits == MaxTime * (MaxRescales + 2)
Scale == Pow2(FracBits)

\* ------------------------------------------------------- weighting functions
\* g.rs: impl Function for () and impl Function for Exponential.
GKinds == {"NoDecay", "Exponential"}

\* Function::invoke(age), as a fixed-point number.
invoke(kind, a) ==
    IF kind = "Exponential" THEN Pow2(FracBits + a) ELSE Scale

\* f64 division a / b of two fixed-point numbers.
Div(a, b) == (a * Scale) \div b

DivExact(a, b) == ((a * Scale) % b) = 0

\* Item::age for Instant: signed seconds from the landmark to the item.
age(item, l) == item - l

\* ------------------------------------------------------- f64, exactly
\* The aggregators and ForwardDecay::weight divide by values that are not
\* powers of two (g(n) = n^2), so their f64 values are modelled as fractions
\* in lowest terms with a positive denominator.  Denominator 0 stands for the
\* values a division by zero produces: 1/0 = +inf, -1/0 = -inf, 0/0 = NaN.
\* (Rounding and the sign of zero are not modelled.)
Abs(n) == IF n < 0 THEN -n ELSE n
Sign(n) == IF n > 0 THEN 1 ELSE IF n < 0 THEN -1 ELSE 0

RECURSIVE Gcd(_, _)
Gcd(a, b) == IF b = 0 THEN a ELSE Gcd(b, a % b)

F(num, den) ==
    IF den = 0 THEN [num |-> Sign(num), den |-> 0]
    ELSE LET d == Gcd(Abs(num), Abs(den))
             s == Sign(den)
         IN  [num |-> (s * num) \div d, den |-> (s * den) \div d]

FromInt(n) == F(n, 1)
NaN == F(0, 0)

\* f64 multiplication, division and addition.
FMul(a, b) == F(a.num * b.num, a.den * b.den)

FDiv(a, b) ==
    LET s == IF b.num < 0 THEN -1 ELSE 1
    IN  F(s * a.num * b.den, s * a.den * b.num)

FAdd(a, b) ==
    IF a.den = 0 /\ b.den = 0 THEN (IF a = b THEN a ELSE NaN)
    ELSE F(a.num * b.den + b.num * a.den, a.den * b.den)

\* f64 comparisons <, <=, > and >=: every comparison with NaN is false.
FLt(a, b) ==
    /\ a # NaN
    /\ b # NaN
    /\ CASE a.den = 0 /\ b.den = 0 -> a.num < b.num
         [] a.den = 0 /\ b.den # 0 -> a.num < 0
         [] a.den # 0 /\ b.den = 0 -> b.num > 0
         [] OTHER -> a.num * b.den < b.num * a.den
FLe(a, b) == a # NaN /\ b # NaN /\ (a = b \/ FLt(a, b))
FGt(a, b) == FLt(b, a)
FGe(a, b) == FLe(b, a)

\* g.rs: the weighting functions the crate constructs: (), Exponential(alpha)
\* with alpha = ln 2, Polynomial(Beta) and LandmarkWindow.
Functions == {"NoDecay", "Exponential", "Polynomial", "LandmarkWindow"}

\* The degree of the polynomial: |n| n.powi(2) and g::Polynomial::new(2).
Beta == 2

\* f64::powi
RECURSIVE powi(_, _)
powi(x, n) == IF n = 0 THEN 1 ELSE x * powi(x, n - 1)

\* Function::invoke(age) of the four functions, as an exact f64.
g_invoke(kind, a) ==
    CASE kind = "NoDecay" -> FromInt(1)
      [] kind = "Exponential" -> IF a >= 0 THEN F(Pow2(a), 1) ELSE F(1, Pow2(-a))
      [] kind = "Polynomial" -> FromInt(powi(a, Beta))
      [] kind = "LandmarkWindow" -> IF a > 0 THEN FromInt(1) ELSE FromInt(0)

VARIABLES
    clock,      \* the value Instant::now() returns next
    capacity,   \* BTreeSpaceSaving::capacity
    g,          \* decay.g (the kind of weighting function)
    landmark,   \* decay.landmark
    hits,       \* BTreeSpaceSaving::hits
    elements,   \* BTreeSpaceSaving::elements : HashMap<E, Count>
    counts,     \* BTreeSpaceSaving::counts : BTreeSet<Counter<E>>
    truth,      \* exact decayed count of every key (unbounded-memory reference)
    rescales,   \* number of update_landmark calls so far
    nhits,      \* number of hit calls so far
    last,       \* what the last operation was and did
    script,     \* how many hits, from the first on, followed ScenarioC
    aggregator, \* BasicAggregator::sum and BasicAggregator::count
    items,      \* the items the aggregator was updated with since new / reset
    returned,   \* the last call on the decay model or the aggregator and its value
    min_max,    \* MinMaxAggregator::min_max
    negative,   \* SignAggregator::negative: its sum, its count and its decay
                \* model's landmark (SignAggregator::positive is aggregator under landmark)
    kind,       \* the type of the object the program constructed
    dropped     \* did a reset discard accumulated items?

vars == <<clock, capacity, g, landmark, hits, elements, counts, truth, rescales, nhits, last,
          script, aggregator, items, returned, min_max, negative, kind, dropped>>

\* The state of the aggregators and of the calls on the decay model.
aggVars == <<aggregator, items, returned, min_max, negative, kind, dropped>>

\* static_weight with the item and the landmark exchanged (a faulty variant).
static_weight_swapped(item) == invoke(g, age(landmark, item))
\* ForwardDecay::static_weight(item)
static_weight(item) == invoke(g, age(item, landmark))

\* ForwardDecay::normalizing_factor(timestamp)
normalizing_factor(timestamp) == invoke(g, age(timestamp, landmark))

\* ------------------------------------------------------------- Counter
NewCount(c, e) == [count |-> c, error |-> e]
DefaultCount == NewCount(0, 0)

\* Counter::new(element, count)
NewCounter(element, c) == [count |-> c.count, error |-> c.error, element |-> element]

\* Counter::key
key(counter) == NewCount(counter.count, counter.error)

\* Counter::guaranteed_count
guaranteed_count(counter) == counter.count - counter.error

\* Counter::partial_cmp / Ord::cmp: the tuple (count, error), element ignored.
cmp(a, b) ==
    IF a.count < b.count THEN "Less"
    ELSE IF a.count > b.count THEN "Greater"
    ELSE IF a.error < b.error THEN "Less"
    ELSE IF a.error > b.error THEN "Greater"
    ELSE "Equal"

\* ------------------------------------------------------------- BTreeSet
\* BTreeSet::insert: a value that compares Equal to a member is not inserted
\* and the member is not replaced.
insert(set, counter) ==
    IF \E x \in set : cmp(x, counter) = "Equal" THEN set ELSE set \cup {counter}

\* BTreeSet::remove: removes the member that compares Equal to the value.
remove(set, counter) == {x \in set : cmp(x, counter) # "Equal"}

\* The greatest and the least member of a set that is not empty.
last_entry(set) == CHOOSE x \in set : \A y \in set : cmp(y, x) # "Greater"
first(set) == CHOOSE x \in set : \A y \in set : cmp(y, x) # "Less"

\* Popping the greatest member instead (a faulty variant).
pop_last(set) == last_entry(set)
\* BTreeSet::pop_first: the member removed (set is not empty).
pop_first(set) == first(set)

\* The members from greatest to least: counts.iter().rev()
RECURSIVE rev(_)
rev(set) ==
    IF set = {} THEN <<>>
    ELSE LET m == last_entry(set) IN <<m>> \o rev(set \ {m})

\* ------------------------------------------------------------- HashMap
put(map, k, v) == [x \in (DOMAIN map) \cup {k} |-> IF x = k THEN v ELSE map[x]]

del(map, k) == [x \in (DOMAIN map) \ {k} |-> map[x]]

NoEntry == [count |-> 0, error |-> 0, element |-> 0]

\* Scenario C of the specification: the stream a, a, b, c, c, c.
ScenarioC == <<1, 1, 2, 3, 3, 3>>

\* Scenarios A and B are queried this many seconds after the landmark.
ScenarioANow == 10

\* BasicAggregator::new: sum 0.0 and count 0.0.
NewAggregator == [sum |-> FromInt(0), count |-> FromInt(0)]

\* A BasicAggregator::new whose sum starts at 1 (a faulty variant).
NewBranch_unclean(l) == [sum |-> FromInt(1), count |-> FromInt(0), landmark |-> l]
\* BasicAggregator::new(decay) for a decay model of its own, with the landmark l.
NewBranch(l) == [sum |-> FromInt(0), count |-> FromInt(0), landmark |-> l]

\* No SignAggregator was constructed.
NoBranch == [sum |-> FromInt(0), count |-> FromInt(0), landmark |-> 0]

\* MinMax::Neither, MinMax::Same(item) and MinMax::Both(min, max)
Neither == [tag |-> "Neither", min |-> <<>>, max |-> <<>>]
Same(item) == [tag |-> "Same", min |-> <<item>>, max |-> <<item>>]
Both(min, max) == [tag |-> "Both", min |-> <<min>>, max |-> <<max>>]

\* No call was made yet.
NoCall == [op |-> "new", item |-> 0, timestamp |-> 0, old |-> 0, value |-> FromInt(0)]

Init ==
    /\ clock = 0
    /\ capacity \in 1..MaxCapacity
    /\ g \in GKinds
    /\ landmark \in Times
    /\ hits = 0
    /\ elements = [x \in {} |-> DefaultCount]
    /\ counts = {}
    /\ truth = [x \in Keys |-> 0]
    /\ rescales = 0
    /\ nhits = 0
    /\ last = [op |-> "new", element |-> 0, case |-> "none", weight |-> 0,
               old |-> DefaultCount, min |-> NoEntry, hits |-> 0, now |-> 0]
    /\ script = 0
    /\ aggregator = NewAggregator
    /\ items = <<>>
    /\ returned = NoCall
    /\ min_max = Neither
    /\ negative = NoBranch
    /\ kind = "BTreeSpaceSaving"
    /\ dropped = FALSE

\* Time passes: Instant::now() is monotonic.
Tick ==
    /\ clock < MaxTime
    /\ clock' = clock + 1
    /\ UNCHANGED <<capacity, g, landmark, hits, elements, counts, truth, rescales, nhits, last>>
    /\ UNCHANGED <<script, aggVars>>

\* Taking over the victim's error as well (a variant hit does not implement).
inherit_error(counter, min) == [counter EXCEPT !.count = min.count, !.error = min.error]
\* hit, lines 76-77: the new counter starts from the evicted one; the victim's
\* count becomes the new counter's count and its error.
inherit(counter, min) == [counter EXCEPT !.count = min.count, !.error = min.count]

\* Evicting only above the capacity (a faulty variant).
full_strict(len) == len > capacity
\* hit, line 73: is a counter evicted?
full(len) == len >= capacity

\* BTreeSpaceSaving::hit(element)
hit(element) ==
    LET now == clock
        weight == static_weight(now)
        count == IF element \in DOMAIN elements THEN elements[element] ELSE DefaultCount
        counter0 == NewCounter(element, count)
        isTracked == element \in DOMAIN elements
        evicts == ~isTracked /\ full(Cardinality(counts)) /\ counts # {}
        min == IF evicts THEN pop_first(counts) ELSE NoEntry
        counts1 == IF isTracked THEN remove(counts, counter0)
                   ELSE IF evicts THEN counts \ {min} ELSE counts
        elements1 == IF evicts THEN del(elements, min.element) ELSE elements
        counter1 == IF evicts THEN inherit(counter0, min) ELSE counter0
        counter == [counter1 EXCEPT !.count = @ + weight]
    IN  /\ nhits' = nhits + 1
        /\ hits' = hits + weight
        /\ elements' = put(elements1, element, key(counter))
        /\ counts' = insert(counts1, counter)
        /\ truth' = [truth EXCEPT ![element] = @ + weight]
        /\ last' = [op |-> "hit", element |-> element,
                    case |-> IF isTracked THEN "tracked" ELSE IF evicts THEN "evict" ELSE "insert",
                    weight |-> weight, old |-> count, min |-> min, hits |-> hits,
                    now |-> now]
        /\ script' = IF script = nhits /\ nhits < Len(ScenarioC) /\ element = ScenarioC[nhits + 1]
                     THEN script + 1 ELSE script
        /\ UNCHANGED <<clock, capacity, g, landmark, rescales>>
        /\ UNCHANGED aggVars

\* The keys a stream may hit next.  Keys are opaque to the counter (it hashes
\* them and compares them for equality; Counter::cmp never looks at them), so a
\* stream is taken up to renaming: a key never hit before is the least such key.
seen == {x \in Keys : truth[x] > 0}
NextKeys == {x \in Keys : x <= Cardinality(seen) + 1}

Hit == nhits < MaxHits /\ \E element \in NextKeys : hit(element)

\* update_landmark, lines 34-40: every counter is divided and inserted again,
\* in ascending order.
RECURSIVE rescaled(_, _, _)
rescaled(todo, factor, acc) ==
    IF todo = {} THEN acc
    ELSE LET c == first(todo)
             d == [c EXCEPT !.count = Div(@, factor), !.error = Div(@, factor)]
         IN  rescaled(todo \ {c}, factor, insert(acc, d))

\* BTreeSpaceSaving<E, Exponential>::update_landmark(landmark)
update_landmark(l) ==
    LET a == age(l, landmark)          \* ForwardDecay::set_landmark returns it
        factor == invoke(g, a)
    IN  /\ g = "Exponential"
        /\ rescales < MaxRescales
        /\ rescales' = rescales + 1
        /\ landmark' = l
        /\ hits' = Div(hits, factor)
        /\ counts' = rescaled(counts, factor, {})
        /\ truth' = [x \in Keys |-> Div(truth[x], factor)]
        /\ last' = [op |-> "update_landmark", element |-> 0, case |-> "none", weight |-> factor,
                    old |-> DefaultCount, min |-> NoEntry, hits |-> hits,
                    now |-> clock]
        /\ UNCHANGED <<clock, capacity, g, elements, nhits>>
        /\ UNCHANGED <<script, aggVars>>

UpdateLandmark == \E l \in Times : update_landmark(l)

Next == Tick \/ Hit \/ UpdateLandmark

Spec == Init /\ [][Next]_vars

\* Streams of hits only, the landmark never moved.
NextHits == Tick \/ Hit

SpecHits == Init /\ [][NextHits]_vars

\* Longer streams without decay (g = (), every weight 1).
InitStream == Init /\ g = "NoDecay" /\ landmark = 0

HitStream == nhits < MaxStream /\ \E element \in NextKeys : hit(element)

NextStream == HitStream

SpecStream == InitStream /\ [][NextStream]_vars

\* ------------------------------------------------------- ForwardDecay
\* ForwardDecay::set_landmark(landmark) returning the age of the previous
\* landmark relative to the new one (a faulty variant).
fd_set_landmark_reversed(l) == [landmark |-> l, age |-> age(landmark, l)]
\* ForwardDecay::set_landmark(landmark): the new landmark and the age returned.
fd_set_landmark(l) == [landmark |-> l, age |-> age(l, landmark)]

\* ForwardDecay::weight with the quotient upside down (a faulty variant).
fd_weight_inverted(item, timestamp) ==
    FDiv(g_invoke(g, age(timestamp, landmark)), g_invoke(g, age(item, landmark)))
\* ForwardDecay::weight(item, timestamp)
fd_weight(item, timestamp) ==
    FDiv(g_invoke(g, age(item, landmark)), g_invoke(g, age(timestamp, landmark)))

\* ForwardDecay::static_weight(item) and normalizing_factor(timestamp), exactly.
fd_static_weight(item) == g_invoke(g, age(item, landmark))
fd_normalizing_factor(timestamp) == g_invoke(g, age(timestamp, landmark))

\* A counter nothing was done with: the decay model and the aggregator are
\* exercised on their own.
NoCounter ==
    /\ clock = 0
    /\ capacity = 1
    /\ hits = 0
    /\ elements = [x \in {} |-> DefaultCount]
    /\ counts = {}
    /\ truth = [x \in Keys |-> 0]
    /\ rescales = 0
    /\ nhits = 0
    /\ last = [op |-> "new", element |-> 0, case |-> "none", weight |-> 0,
               old |-> DefaultCount, min |-> NoEntry, hits |-> 0, now |-> 0]
    /\ script = 0

counterVars == <<clock, capacity, hits, elements, counts, truth, nhits, last, script>>

\* ForwardDecay::new(landmark, g)
InitDecay ==
    /\ NoCounter
    /\ g \in Functions
    /\ landmark \in Instants
    /\ aggregator = NewAggregator
    /\ items = <<>>
    /\ returned = NoCall
    /\ min_max = Neither
    /\ negative = NoBranch
    /\ kind = "ForwardDecay"
    /\ dropped = FALSE

\* A call of set_landmark.
SetLandmark ==
    \E l \in Instants :
        /\ landmark' = fd_set_landmark(l).landmark
        /\ returned' = [op |-> "set_landmark", item |-> 0, timestamp |-> l, old |-> landmark,
                        value |-> FromInt(fd_set_landmark(l).age)]
        /\ UNCHANGED <<counterVars, min_max, g, rescales, aggregator, items, negative, kind, dropped>>

\* A call of weight.
Weight ==
    \E item \in Instants, timestamp \in Instants :
        /\ returned' = [op |-> "weight", item |-> item, timestamp |-> timestamp, old |-> landmark,
                        value |-> fd_weight(item, timestamp)]
        /\ UNCHANGED <<counterVars, min_max, g, landmark, rescales, aggregator, items, negative, kind,
                     dropped>>

\* The parameters the constructors of g.rs are called with: alpha and target as
\* f64 (alpha in units of ln 2), beta as i32, duration in whole seconds.
Alphas == {F(-1, 1), F(0, 1), F(1, 2), F(1, 1), F(1, 0), F(-1, 0), NaN}
Betas == (-2)..2
Targets == {F(-1, 2), F(0, 1), F(1, 4), F(1, 2), F(1, 1), F(3, 2), NaN}
Durations == 0..2

\* Exponential::new, line 25, with alpha = 0 let through (a faulty variant).
valid_alpha_or_zero(alpha) == FGe(alpha, FromInt(0))
\* Exponential::new, line 25: alpha > 0.0
valid_alpha(alpha) == FGt(alpha, FromInt(0))

\* Exponential::new(alpha): None (<<>>) is the panic, otherwise the function,
\* which is its alpha.
Exponential_new(alpha) == IF ~valid_alpha(alpha) THEN <<>> ELSE <<alpha>>

\* -target.ln() in units of ln 2, for the targets 1, 1/2, 1/4, ...
neg_ln(target) == CHOOSE k \in 0..4 : target = F(1, Pow2(k))

\* Exponential::rate(target, duration)
Exponential_rate(target, duration) ==
    IF ~(FGt(target, FromInt(0)) /\ FLt(target, FromInt(1))) THEN <<>>
    ELSE <<FDiv(FromInt(neg_ln(target)), FromInt(duration))>>

\* Polynomial::new(beta): None (<<>>) is the panic, otherwise the function,
\* which is its beta.
Polynomial_new(beta) == IF ~(beta > 0) THEN <<>> ELSE <<beta>>

\* Calls of the constructors.  What they return is recorded; the decay model
\* at hand keeps its function.
NewExponential ==
    \E alpha \in Alphas :
        /\ returned' = [op |-> "Exponential::new", alpha |-> alpha,
                        value |-> Exponential_new(alpha)]
        /\ UNCHANGED <<counterVars, min_max, g, landmark, rescales, aggregator, items, negative, kind,
                     dropped>>

ExponentialRate ==
    \E target \in Targets, duration \in Durations :
        /\ returned' = [op |-> "Exponential::rate", target |-> target, duration |-> duration,
                        value |-> Exponential_rate(target, duration)]
        /\ UNCHANGED <<counterVars, min_max, g, landmark, rescales, aggregator, items, negative, kind,
                     dropped>>

NewPolynomial ==
    \E beta \in Betas :
        /\ returned' = [op |-> "Polynomial::new", beta |-> beta,
                        value |-> Polynomial_new(beta)]
        /\ UNCHANGED <<counterVars, min_max, g, landmark, rescales, aggregator, items, negative, kind,
                     dropped>>

NextDecay == SetLandmark \/ Weight \/ NewExponential \/ ExponentialRate \/ NewPolynomial

SpecDecay == InitDecay /\ [][NextDecay]_vars

\* ------------------------------------------------------- BasicAggregator
\* Item for (Instant, f64): timestamp and value.
timestamp_of(item) == item[1]
value(item) == FromInt(item[2])

\* BasicAggregator::update with the sum taken of the bare values (a faulty
\* variant).
basic_update_unweighted(a, item) ==
    LET w == fd_static_weight(timestamp_of(item))
    IN  [sum |-> FAdd(a.sum, value(item)), count |-> FAdd(a.count, w)]
\* BasicAggregator::update(item) on the accumulators a.
basic_update(a, item) ==
    LET w == fd_static_weight(timestamp_of(item))
    IN  [sum |-> FAdd(a.sum, FMul(w, value(item))), count |-> FAdd(a.count, w)]

\* update_landmark with the factor of the opposite age (a faulty variant).
rescale_factor_back(a) == g_invoke(g, -a)
\* update_landmark, line 104: the factor the accumulators are divided by.
rescale_factor(a) == g_invoke(g, a)

\* average() as count / sum (a faulty variant).
basic_average_inverted == FDiv(aggregator.count, aggregator.sum)
\* BasicAggregator::sum(timestamp), count(timestamp) and average().
basic_sum(timestamp) == FDiv(aggregator.sum, fd_normalizing_factor(timestamp))
basic_count(timestamp) == FDiv(aggregator.count, fd_normalizing_factor(timestamp))
basic_average == FDiv(aggregator.sum, aggregator.count)

\* BasicAggregator::new(ForwardDecay::new(landmark, g))
InitBasic ==
    /\ NoCounter
    /\ g \in Functions
    /\ landmark \in ItemTimes
    /\ aggregator = NewAggregator
    /\ items = <<>>
    /\ returned = NoCall
    /\ min_max = Neither
    /\ negative = NoBranch
    /\ kind = "BasicAggregator"
    /\ dropped = FALSE

Update ==
    /\ Len(items) < MaxItems
    /\ \E item \in Items :
        /\ aggregator' = basic_update(aggregator, item)
        /\ items' = Append(items, item)
        /\ returned' = [op |-> "update", item |-> timestamp_of(item), timestamp |-> 0,
                        old |-> landmark, value |-> value(item)]
    /\ UNCHANGED <<counterVars, min_max, g, landmark, rescales, negative, kind, dropped>>

\* BasicAggregator::reset(landmark)
Reset ==
    \E l \in ItemTimes :
        /\ landmark' = fd_set_landmark(l).landmark
        /\ aggregator' = NewAggregator
        /\ items' = <<>>
        /\ returned' = [op |-> "reset", item |-> 0, timestamp |-> l, old |-> landmark,
                        value |-> FromInt(0)]
        /\ dropped' = (dropped \/ items # <<>>)
        /\ UNCHANGED <<counterVars, min_max, g, rescales, negative, kind>>

\* BasicAggregator<Exponential, I>::update_landmark(landmark)
BasicUpdateLandmark ==
    \E l \in ItemTimes :
        LET factor == rescale_factor(fd_set_landmark(l).age)
        IN  /\ g = "Exponential"
            /\ rescales < MaxRescales
            /\ rescales' = rescales + 1
            /\ landmark' = fd_set_landmark(l).landmark
            /\ aggregator' = [sum |-> FDiv(aggregator.sum, factor),
                              count |-> FDiv(aggregator.count, factor)]
            /\ returned' = [op |-> "update_landmark", item |-> 0, timestamp |-> l,
                            old |-> landmark, value |-> factor]
            /\ UNCHANGED <<counterVars, min_max, g, items, negative, kind, dropped>>

NextBasic == Update \/ Reset \/ BasicUpdateLandmark

SpecBasic == InitBasic /\ [][NextBasic]_vars

\* Scenario B of the specification and the example tests: the items
\* (offset from the landmark in seconds, value), queried ScenarioANow seconds
\* after the landmark.
ScenarioB == <<<<5, 4>>, <<7, 8>>, <<3, 3>>, <<8, 6>>, <<4, 4>>>>

\* The landmarks that leave room for the query time of the scenarios.
ScenarioLandmarks == 0..(MaxInstant - ScenarioANow)

\* The items of Scenario B, for the landmark 0.
ScenarioItems == {ScenarioB[i] : i \in 1..Len(ScenarioB)}

\* The stream of Scenario B for the landmark l.
ScenarioStream(l) == [i \in 1..Len(ScenarioB) |-> <<l + ScenarioB[i][1], ScenarioB[i][2]>>]

\* BasicAggregator::new, for streams of the items of Scenario B.
InitScenarioB ==
    /\ NoCounter
    /\ g \in Functions
    /\ landmark \in ScenarioLandmarks
    /\ aggregator = NewAggregator
    /\ items = <<>>
    /\ returned = NoCall
    /\ min_max = Neither
    /\ negative = NoBranch
    /\ kind = "BasicAggregator"
    /\ dropped = FALSE

UpdateScenarioB ==
    /\ Len(items) < Len(ScenarioB)
    /\ \E item \in ScenarioItems :
        /\ aggregator' = basic_update(aggregator, item)
        /\ items' = Append(items, item)
        /\ returned' = [op |-> "update", item |-> timestamp_of(item), timestamp |-> 0,
                        old |-> landmark, value |-> value(item)]
    /\ UNCHANGED <<counterVars, min_max, g, landmark, rescales, negative, kind, dropped>>

NextScenarioB == UpdateScenarioB

SpecScenarioB == InitScenarioB /\ [][NextScenarioB]_vars

\* ------------------------------------------------------- MinMaxAggregator
\* ForwardDecay::static_weighted_value(item)
fd_static_weighted_value(item) == FMul(fd_static_weight(timestamp_of(item)), value(item))

\* MinMaxAggregator::update(item) on the retained items mm.
minmax_update(mm, item) ==
    CASE mm.tag = "Neither" -> Same(item)
      [] mm.tag = "Same" ->
            IF FLe(fd_static_weighted_value(mm.min[1]), fd_static_weighted_value(item))
            THEN Both(mm.min[1], item)
            ELSE Both(item, mm.min[1])
      [] mm.tag = "Both" ->
            IF FLt(fd_static_weighted_value(item), fd_static_weighted_value(mm.min[1]))
            THEN Both(item, mm.max[1])
            ELSE IF FGt(fd_static_weighted_value(item), fd_static_weighted_value(mm.max[1]))
            THEN Both(mm.min[1], item)
            ELSE Both(mm.min[1], mm.max[1])

\* MinMaxAggregator::min() handing out the max (a faulty variant).
minmax_min_swapped == min_max.max
\* MinMaxAggregator::min() and max(); None is <<>>.
minmax_min == min_max.min
minmax_max == min_max.max

\* MinMaxAggregator::new(ForwardDecay::new(landmark, g))
InitMinMax ==
    /\ NoCounter
    /\ g \in Functions
    /\ landmark \in ScenarioLandmarks
    /\ aggregator = NewAggregator
    /\ items = <<>>
    /\ returned = NoCall
    /\ min_max = Neither
    /\ negative = NoBranch
    /\ kind = "MinMaxAggregator"
    /\ dropped = FALSE

MinMaxUpdate ==
    /\ Len(items) < Len(ScenarioB)
    /\ \E item \in ScenarioItems :
        /\ min_max' = minmax_update(min_max, item)
        /\ items' = Append(items, item)
        /\ returned' = [op |-> "update", item |-> timestamp_of(item), timestamp |-> 0,
                        old |-> landmark, value |-> value(item)]
    /\ UNCHANGED <<counterVars, g, landmark, rescales, aggregator, negative, kind, dropped>>

\* MinMaxAggregator::reset(landmark)
MinMaxReset ==
    \E l \in ScenarioLandmarks :
        /\ landmark' = fd_set_landmark(l).landmark
        /\ min_max' = Neither
        /\ items' = <<>>
        /\ returned' = [op |-> "reset", item |-> 0, timestamp |-> l, old |-> landmark,
                        value |-> FromInt(0)]
        /\ dropped' = (dropped \/ items # <<>>)
        /\ UNCHANGED <<counterVars, g, rescales, aggregator, negative, kind>>

NextMinMax == MinMaxUpdate \/ MinMaxReset

SpecMinMax == InitMinMax /\ [][NextMinMax]_vars

\* ------------------------------------------------------- SignAggregator
\* The instants of the items and landmarks of a SignAggregator.
MaxSignTime == 1
SignTimes == 0..MaxSignTime

\* Items (Instant, f64) with the sign bit of the value written out:
\* <<timestamp, value, sign bit>>.  A value that is not zero has the sign bit of
\* its sign; 0.0 is <<t, 0, 0>> and -0.0 is <<t, 0, 1>>.
SignValues == {-4, 0, 3}
SignItems ==
    {item \in SignTimes \X SignValues \X {0, 1} :
        /\ item[2] > 0 => item[3] = 0
        /\ item[2] < 0 => item[3] = 1}

\* f64::is_sign_positive of the item's value
is_sign_positive(item) == item[3] = 0

\* BasicAggregator::update(item) on a branch b with a decay model of its own.
branch_update(b, item) ==
    LET w == g_invoke(g, age(timestamp_of(item), b.landmark))
    IN  [sum |-> FAdd(b.sum, FMul(w, value(item))), count |-> FAdd(b.count, w),
         landmark |-> b.landmark]

\* BasicAggregator<Exponential, I>::update_landmark(l) on a branch b with a
\* decay model of its own.
branch_update_landmark(b, l) ==
    LET factor == rescale_factor(age(l, b.landmark))
    IN  [sum |-> FDiv(b.sum, factor), count |-> FDiv(b.count, factor), landmark |-> l]

\* SignAggregator::new(positive, negative), each decay model with its landmark.
InitSign ==
    /\ NoCounter
    /\ g \in Functions
    /\ landmark \in SignTimes
    /\ aggregator = NewAggregator
    /\ items = <<>>
    /\ returned = NoCall
    /\ min_max = Neither
    /\ \E l \in SignTimes : negative = NewBranch(l)
    /\ kind = "SignAggregator"
    /\ dropped = FALSE

\* SignAggregator::update(item)
SignUpdate ==
    /\ Len(items) < MaxItems
    /\ \E item \in SignItems :
        /\ IF is_sign_positive(item)
           THEN aggregator' = basic_update(aggregator, item) /\ negative' = negative
           ELSE negative' = branch_update(negative, item) /\ aggregator' = aggregator
        /\ items' = Append(items, item)
        /\ returned' = [op |-> "update", item |-> timestamp_of(item), timestamp |-> 0,
                        old |-> landmark, value |-> value(item)]
    /\ UNCHANGED <<counterVars, min_max, g, landmark, rescales, kind, dropped>>

\* SignAggregator::reset(landmark)
SignReset ==
    \E l \in SignTimes :
        /\ landmark' = fd_set_landmark(l).landmark
        /\ aggregator' = NewAggregator
        /\ negative' = NewBranch(l)
        /\ items' = <<>>
        /\ dropped' = (dropped \/ items # <<>>)
        /\ returned' = [op |-> "reset", item |-> 0, timestamp |-> l, old |-> landmark,
                        value |-> FromInt(0)]
        /\ UNCHANGED <<counterVars, min_max, g, rescales, kind>>

\* SignAggregator<Exponential, I>::update_landmark(landmark)
SignUpdateLandmark ==
    \E l \in SignTimes :
        LET factor == rescale_factor(fd_set_landmark(l).age)
        IN  /\ g = "Exponential"
            /\ rescales < MaxRescales
            /\ rescales' = rescales + 1
            /\ landmark' = fd_set_landmark(l).landmark
            /\ aggregator' = [sum |-> FDiv(aggregator.sum, factor),
                              count |-> FDiv(aggregator.count, factor)]
            /\ negative' = branch_update_landmark(negative, l)
            /\ returned' = [op |-> "update_landmark", item |-> 0, timestamp |-> l,
                            old |-> landmark, value |-> factor,
                            old_negative |-> negative.landmark]
            /\ UNCHANGED <<counterVars, min_max, g, items, kind, dropped>>

NextSign == SignUpdate \/ SignReset \/ SignUpdateLandmark

SpecSign == InitSign /\ [][NextSign]_vars

\* ------------------------------------------------------- Aggregator
\* An aggregator of any of the three types, updated and reset through the
\* Aggregator trait.
InitAggregator == InitBasic \/ InitMinMax \/ InitSign

NextAggregator ==
    \/ kind = "BasicAggregator" /\ (Update \/ Reset)
    \/ kind = "MinMaxAggregator" /\ (MinMaxUpdate \/ MinMaxReset)
    \/ kind = "SignAggregator" /\ (SignUpdate \/ SignReset)

SpecAggregator == InitAggregator /\ [][NextAggregator]_vars

\* ------------------------------------------------------------- queries
Min2(a, b) == IF a <= b THEN a ELSE b

\* BTreeSpaceSaving::top(k).  The loop pushes the first min(k, n) counters of
\* counts.iter().rev(); order compares each pushed counter's guaranteed count
\* with the count of the counter after it (peek).  When the loop stops at
\* top_k.len() >= k its iterator.next() has already taken counter k + 1, so the
\* iterator.next() after the loop yields counter k + 2; when the loop runs the
\* iterator dry the next() after it yields None and guarantee stays false.
top(k) ==
    LET ranked == rev(counts)
        n == Len(ranked)
        m == Min2(k, n)
        order == \A i \in 1..m : i + 1 <= n =>
                     guaranteed_count(ranked[i]) >= ranked[i + 1].count
        guarantee == /\ n >= k + 2
                     /\ \A i \in 1..m : ranked[k + 2].count <= guaranteed_count(ranked[i])
    IN  [ok |-> order /\ guarantee, keys |-> [i \in 1..m |-> ranked[i].element]]

\* The values of phi queried, as fractions <<numerator, denominator>>.
Phis == {<<1, 8>>, <<1, 4>>, <<1, 2>>, <<1, 1>>}

\* (phi * self.hits).ceil(), as a fixed-point number.
threshold(phi) ==
    LET num == phi[1] * hits
        den == phi[2] * Scale
    IN  ((num + den - 1) \div den) * Scale

\* frequent, line 145: is the candidate's guaranteed count high enough?
frequent_guaranteed(counter, t) == guaranteed_count(counter) >= t

\* BTreeSpaceSaving::frequent(phi): the leading counters of counts.iter().rev()
\* whose count exceeds the threshold.
frequent(phi) ==
    LET t == threshold(phi)
        ranked == rev(counts)
        n == Len(ranked)
        stop == IF \E i \in 1..n : ranked[i].count <= t
                THEN CHOOSE i \in 1..n : ranked[i].count <= t /\ \A j \in 1..(i - 1) : ranked[j].count > t
                ELSE n + 1
        m == stop - 1
    IN  [ok |-> \A i \in 1..m : frequent_guaranteed(ranked[i], t),
         keys |-> [i \in 1..m |-> ranked[i].element]]

\* BTreeSpaceSaving::hits(timestamp)
hits_at(timestamp) == Div(hits, normalizing_factor(timestamp))

\* BTreeSpaceSaving::get(element, timestamp); None is <<>>.
get(element, timestamp) ==
    IF element \notin DOMAIN elements THEN <<>>
    ELSE <<NewCount(Div(elements[element].count, normalizing_factor(timestamp)),
                    Div(elements[element].error, normalizing_factor(timestamp)))>>

\* No division of the model rounds: every stored number can be divided by the
\* largest normalizing factor, and before the last rescale by the largest
\* rescale factor as well.
ExactArithmetic ==
    LET f == IF rescales < MaxRescales THEN Pow2(FracBits + 2 * MaxTime)
             ELSE Pow2(FracBits + MaxTime)
    IN  /\ DivExact(hits, f)
        /\ \A c \in counts : DivExact(c.count, f) /\ DivExact(c.error, f)
        /\ \A x \in DOMAIN elements : DivExact(elements[x].count, f) /\ DivExact(elements[x].error, f)
        /\ \A x \in Keys : DivExact(truth[x], f)

\* ------------------------------------------------------------- claims
Range(q) == {q[i] : i \in 1..Len(q)}

\* The counters the rank structure holds for a key.
entries(element) == {c \in counts : c.element = element}

\* (count, error) of a is strictly below (count, error) of b.
PairLess(a, b) == a.count < b.count \/ (a.count = b.count /\ a.error < b.error)

\* C1: after every operation every tracked key's count brackets the key's exact
\* decayed count: count - error <= true decayed count <= count.
C1_SpaceSavingBound ==
    \A x \in DOMAIN elements :
        /\ elements[x].count - elements[x].error <= truth[x]
        /\ truth[x] <= elements[x].count

\* C2: the lookup map and the rank structure never hold more than capacity
\* entries.
C2_BoundedByCapacity ==
    /\ Cardinality(DOMAIN elements) <= capacity
    /\ Cardinality(counts) <= capacity

\* The keys top(k) returned are k distinct keys and no key left out has a
\* larger exact decayed count than a key returned.
TopIsExact(k) ==
    LET r == top(k)
    IN  /\ Len(r.keys) = k
        /\ Cardinality(Range(r.keys)) = k
        /\ \A a \in Range(r.keys) : \A b \in Keys \ Range(r.keys) : truth[a] >= truth[b]

\* C3: whenever top(k) returns Ok, the keys returned are the k keys with the
\* largest exact decayed counts.
C3_TopGuaranteedIsExact == \A k \in 1..MaxCapacity : top(k).ok => TopIsExact(k)

\* The keys whose exact decayed count exceeds the threshold of phi.
ExactFrequent(phi) == {x \in Keys : truth[x] > threshold(phi)}

\* C4: whenever frequent(phi) returns Ok, the keys returned are exactly the keys
\* whose exact decayed count exceeds ceil(phi * total hits).
C4_FrequentGuaranteedIsExact ==
    \A phi \in Phis : frequent(phi).ok => Range(frequent(phi).keys) = ExactFrequent(phi)

\* C5: on streams of hits, every tracked counter's error is at most the decayed
\* hit total divided by the capacity (in the lookup map and in the rank
\* structure alike).
C5_ErrorBound ==
    /\ \A x \in DOMAIN elements : elements[x].error * capacity <= hits
    /\ \A c \in counts : c.error * capacity <= hits

\* A counter was evicted by the last hit and tracked counters carry an error.
C5_Witness ==
    /\ last.case = "evict"
    /\ \E x \in DOMAIN elements : elements[x].error > 0
    /\ \E c \in counts : c.error > 0

\* C6 as stated: a key that replaces a victim gets count = victim.count + w and
\* error = victim.error.
C6_InheritsCountAndError ==
    last.case = "evict" =>
        elements[last.element] = NewCount(last.min.count + last.weight, last.min.error)

\* C6 as amended: a key that replaces a victim gets count = victim.count + w and
\* error = victim.count; that Count is what hit stores in the lookup map.
C6_InheritsCountAsError ==
    last.case = "evict" =>
        elements[last.element] = NewCount(last.min.count + last.weight, last.min.count)

\* The last hit replaced a victim whose error differs from its count.
C6_Witness ==
    /\ last.case = "evict"
    /\ last.min.error > 0
    /\ last.min.error # last.min.count

\* C7: after a hit on a tracked key the rank structure holds exactly one entry
\* for the key, with count = old count + w and the old error.
C7_TrackedHitReinserts ==
    last.case = "tracked" =>
        /\ elements[last.element] = NewCount(last.old.count + last.weight, last.old.error)
        /\ entries(last.element) =
               {NewCounter(last.element, NewCount(last.old.count + last.weight, last.old.error))}

\* C8: after a hit on an untracked key with fewer than capacity slots occupied
\* the key is in the lookup map and in the rank structure with count = w and
\* error = 0.
C8_FreshInsert ==
    last.case = "insert" =>
        /\ last.element \in DOMAIN elements
        /\ elements[last.element] = NewCount(last.weight, 0)
        /\ NewCounter(last.element, NewCount(last.weight, 0)) \in counts

\* C9: the counter a hit evicts is a minimum of the tracked counters under
\* (count, error), and its key is tracked no longer.
C9_VictimIsMinimum ==
    last.case = "evict" =>
        /\ \A x \in DOMAIN elements \ {last.element} : ~PairLess(elements[x], last.min)
        /\ \A c \in counts : c.element # last.element => ~PairLess(c, last.min)
        /\ last.min.element \notin DOMAIN elements
        /\ entries(last.min.element) = {}

\* C10: every hit adds w = g(age(now)) to the hit total, and hits(t) is the
\* total divided by normalizing_factor(t) = g(age(t)).
C10_HitTotal ==
    /\ last.op = "hit" => hits = last.hits + invoke(g, age(last.now, landmark))
    /\ \A t \in Times : hits_at(t) * invoke(g, age(t, landmark)) = hits * Scale

\* The last hit replaced a victim, under exponential decay, at an instant that
\* is not the landmark.
C10_Witness ==
    /\ last.op = "hit"
    /\ last.case = "evict"
    /\ g = "Exponential"
    /\ last.now # landmark

\* Is the sequence free of repetitions?
Distinct(q) == \A i, j \in 1..Len(q) : i # j => q[i] # q[j]

\* C11: top(k) returns the min(k, number of tracked keys) tracked keys with the
\* highest counts, in non-increasing count order and without repeating a key.
C11_TopReturnsHighest ==
    \A k \in 1..MaxCapacity :
        LET r == top(k).keys
            tracked == DOMAIN elements
        IN  /\ Len(r) = Min2(k, Cardinality(tracked))
            /\ Range(r) \subseteq tracked
            /\ Distinct(r)
            /\ \A i, j \in 1..Len(r) :
                   (i < j /\ r[i] \in tracked /\ r[j] \in tracked) =>
                       elements[r[i]].count >= elements[r[j]].count
            /\ \A x \in Range(r) \cap tracked : \A y \in tracked \ Range(r) :
                   elements[x].count >= elements[y].count

\* Conditions (a) and (b) of the specification for top(k), over the ranked
\* counters: the guaranteed counts of the first k are non-increasing, and the
\* count of counter k + 1 is at most each of them.
TopConditions(k) ==
    LET ranked == rev(counts)
    IN  /\ \A i \in 1..(k - 1) : guaranteed_count(ranked[i]) >= guaranteed_count(ranked[i + 1])
        /\ \A i \in 1..k : ranked[k + 1].count <= guaranteed_count(ranked[i])

\* C12: where the rank structure holds a counter k + 1, top(k) reports
\* guaranteed if and only if (a) the guaranteed counts of the returned keys are
\* non-increasing in return order and (b) the count of counter k + 1 does not
\* exceed the least guaranteed count among the top k.
C12_TopGuaranteedIff ==
    \A k \in 1..MaxCapacity :
        Cardinality(counts) >= k + 1 => (top(k).ok <=> TopConditions(k))

\* C13: frequent(phi) returns exactly the tracked keys whose count exceeds
\* ceil(phi * total hits), each of them once.
C13_FrequentReturnsAbove ==
    \A phi \in Phis :
        /\ Range(frequent(phi).keys) = {x \in DOMAIN elements : elements[x].count > threshold(phi)}
        /\ Distinct(frequent(phi).keys)

\* C14: frequent(phi) reports guaranteed if and only if the guaranteed count of
\* every returned candidate strictly exceeds ceil(phi * total hits).
C14_FrequentGuaranteedIff ==
    \A phi \in Phis :
        frequent(phi).ok <=>
            \A c \in counts : c.count > threshold(phi) => guaranteed_count(c) > threshold(phi)

\* C15: get(key, t) is None for an untracked key; for a tracked key it is the
\* (count, error) the rank structure holds for the key, each divided by
\* normalizing_factor(t).
C15_GetReadsRankStructure ==
    \A x \in Keys : \A t \in Times :
        IF x \notin DOMAIN elements THEN get(x, t) = <<>>
        ELSE /\ entries(x) # {}
             /\ \A c \in entries(x) :
                    get(x, t) = <<NewCount(Div(c.count, normalizing_factor(t)),
                                           Div(c.error, normalizing_factor(t)))>>

\* C16: with capacity 2 and no decay, after the hits a, a, b, c, c, c at most
\* two keys are tracked, all of them among a, b, c; c is tracked and is the
\* first key of top.
C16_ScenarioC ==
    (capacity = 2 /\ g = "NoDecay" /\ nhits = Len(ScenarioC) /\ script = Len(ScenarioC)) =>
        /\ DOMAIN elements \subseteq {1, 2, 3}
        /\ Cardinality(DOMAIN elements) <= 2
        /\ Cardinality(counts) <= 2
        /\ 3 \in DOMAIN elements
        /\ top(1).keys = <<3>>
        /\ top(2).keys[1] = 3

\* The stream of Scenario C was hit, into a counter of capacity 2.
C16_Witness ==
    /\ capacity = 2
    /\ g = "NoDecay"
    /\ nhits = Len(ScenarioC)
    /\ script = Len(ScenarioC)
    /\ last.op = "hit"
    /\ last.element = 3
    /\ last.case = "tracked"

\* The accumulators of a BasicAggregator::new under the current decay model
\* after updates with the items of q.
RECURSIVE accumulated(_)
accumulated(q) ==
    IF q = <<>> THEN NewAggregator
    ELSE basic_update(accumulated(SubSeq(q, 1, Len(q) - 1)), q[Len(q)])

\* C17: under exponential decay, after update_landmark(L') the aggregator's
\* sum(t), count(t) and average are those of an aggregator that was set to L'
\* before it accumulated the same items, for every t >= L'.
C17_RescaleInvariance ==
    returned.op = "update_landmark" =>
        LET fresh == accumulated(items)
        IN  /\ \A t \in ItemTimes : t >= landmark =>
                   /\ basic_sum(t) = FDiv(fresh.sum, fd_normalizing_factor(t))
                   /\ basic_count(t) = FDiv(fresh.count, fd_normalizing_factor(t))
            /\ basic_average = FDiv(fresh.sum, fresh.count)

\* The landmark was moved under an aggregator that had accumulated items of
\* different ages, none of them at the previous landmark.
C17_Witness ==
    /\ returned.op = "update_landmark"
    /\ returned.old # landmark
    /\ Len(items) >= 2
    /\ \E i, j \in 1..Len(items) : timestamp_of(items[i]) # timestamp_of(items[j])
    /\ aggregator.sum # accumulated(<<>>).sum

\* C18: update_landmark(L') leaves get(key, t) of every tracked key and hits(t)
\* as they were, for every t >= L'.
C18_RescaleKeepsQueries ==
    [][(\E l \in Times : update_landmark(l)) =>
           \A t \in Times : t >= landmark' =>
               /\ hits_at(t)' = hits_at(t)
               /\ \A x \in DOMAIN elements : get(x, t)' = get(x, t)]_vars

\* C19: set_landmark(new_L) makes new_L the landmark and returns new_L - old_L.
C19_SetLandmark ==
    returned.op = "set_landmark" =>
        /\ landmark = returned.timestamp
        /\ returned.value = FromInt(returned.timestamp - returned.old)
        /\ (returned.timestamp > returned.old => returned.value.num > 0)
        /\ (returned.timestamp = returned.old => returned.value.num = 0)
        /\ (returned.timestamp < returned.old => returned.value.num < 0)

\* The landmark was moved backward by set_landmark.
C19_Witness ==
    /\ returned.op = "set_landmark"
    /\ returned.timestamp < returned.old

\* Scenario A of the specification: items 5, 7, 3, 8 and 4 seconds after the
\* landmark, queried 10 seconds after it, and the weights expected.
ScenarioA == <<5, 7, 3, 8, 4>>
ScenarioAWeights == <<F(25, 100), F(49, 100), F(9, 100), F(64, 100), F(16, 100)>>

\* C20: for a query time t after the landmark, weight(item, t) times
\* g(age(t)) is g(age(item)); with g(n) = n^2 the items of Scenario A queried
\* at L + 10 have the weights 25/100, 49/100, 9/100, 64/100 and 16/100.
C20_Weight ==
    returned.op = "weight" =>
        /\ returned.timestamp > landmark =>
               FMul(returned.value, g_invoke(g, returned.timestamp - landmark))
                   = g_invoke(g, returned.item - landmark)
        /\ (g = "Polynomial" /\ returned.timestamp = landmark + ScenarioANow) =>
               \A i \in 1..Len(ScenarioA) :
                   returned.item = landmark + ScenarioA[i] => returned.value = ScenarioAWeights[i]

\* weight was called for the item 7 seconds after the landmark of Scenario A.
C20_Witness ==
    /\ returned.op = "weight"
    /\ g = "Polynomial"
    /\ returned.timestamp = landmark + ScenarioANow
    /\ returned.item = landmark + ScenarioA[2]
    /\ returned.value = ScenarioAWeights[2]

\* C21: weight(item, t) is 0 whenever t is at or before the landmark.
C21_WeightZeroAtLandmark ==
    (returned.op = "weight" /\ returned.timestamp <= landmark) =>
        returned.value = FromInt(0)

\* C22: for an item with age(item) <= age(t), weight(item, t) is in [0, 1].
C22_WeightInUnitInterval ==
    (returned.op = "weight" /\ returned.item <= returned.timestamp) =>
        /\ FLe(FromInt(0), returned.value)
        /\ FLe(returned.value, FromInt(1))

C24_ZeroWeightBeforeLandmark ==
    (returned.op = "weight" /\ returned.item < landmark) =>
        /\ age(returned.item, landmark) < 0
        /\ fd_static_weight(returned.item) = g_invoke(g, age(returned.item, landmark))
        /\ returned.value = FromInt(0)

\* The signed ages of the instants.
Ages == (-MaxInstant)..MaxInstant

\* C25: every weighting function is positive and monotone non-decreasing over
\* the signed ages: for a <= b, g(a) > 0 and g(a) <= g(b).
C25_PositiveMonotone ==
    \A a, b \in Ages :
        a <= b =>
            /\ FGt(g_invoke(g, a), FromInt(0))
            /\ FLe(g_invoke(g, a), g_invoke(g, b))

\* C26: Exponential::new(alpha) fails for every alpha <= 0, Polynomial::new(beta)
\* for every beta <= 0 and Exponential::rate(target, duration) for every target
\* outside (0, 1), none of them yielding a function; with valid parameters each
\* of them yields the function.
C26_ConstructorsValidate ==
    /\ returned.op = "Exponential::new" =>
           /\ FLe(returned.alpha, FromInt(0)) => returned.value = <<>>
           /\ FGt(returned.alpha, FromInt(0)) => returned.value = <<returned.alpha>>
    /\ returned.op = "Polynomial::new" =>
           /\ returned.beta <= 0 => returned.value = <<>>
           /\ returned.beta > 0 => returned.value = <<returned.beta>>
    /\ returned.op = "Exponential::rate" =>
           /\ ~(FGt(returned.target, FromInt(0)) /\ FLt(returned.target, FromInt(1))) =>
                  returned.value = <<>>
           /\ (FGt(returned.target, FromInt(0)) /\ FLt(returned.target, FromInt(1))) =>
                  Len(returned.value) = 1

\* Exponential::new was called with alpha = 0 and panicked.
C26_Witness ==
    /\ returned.op = "Exponential::new"
    /\ returned.alpha = FromInt(0)
    /\ returned.value = <<>>

\* The sum of g(age(item)) * value(item) and the sum of g(age(item)) over the
\* items of q.
RECURSIVE StaticSum(_)
StaticSum(q) ==
    IF q = <<>> THEN FromInt(0)
    ELSE FAdd(StaticSum(Tail(q)),
              FMul(g_invoke(g, age(Head(q)[1], landmark)), FromInt(Head(q)[2])))

RECURSIVE StaticCount(_)
StaticCount(q) ==
    IF q = <<>> THEN FromInt(0)
    ELSE FAdd(StaticCount(Tail(q)), g_invoke(g, age(Head(q)[1], landmark)))

\* C27: after updates under a fixed landmark the sum accumulator is the sum of
\* g(age(item)) * value(item), the count accumulator the sum of g(age(item)),
\* and sum(t) and count(t) are the accumulators divided by g(age(t)); for
\* Scenario B the accumulators are 967 and 163 and the decayed sum and count at
\* L + 10 are 9.67 and 1.63.
C27_BasicAccumulators ==
    /\ aggregator.sum = StaticSum(items)
    /\ aggregator.count = StaticCount(items)
    /\ \A t \in Instants :
           /\ basic_sum(t) = FDiv(StaticSum(items), g_invoke(g, age(t, landmark)))
           /\ basic_count(t) = FDiv(StaticCount(items), g_invoke(g, age(t, landmark)))
    /\ (g = "Polynomial" /\ items = ScenarioStream(landmark)) =>
           /\ aggregator.sum = FromInt(967)
           /\ aggregator.count = FromInt(163)
           /\ basic_sum(landmark + ScenarioANow) = F(967, 100)
           /\ basic_count(landmark + ScenarioANow) = F(163, 100)

\* The aggregator was updated with the stream of Scenario B under g(n) = n^2.
C27_Witness ==
    /\ g = "Polynomial"
    /\ items = ScenarioStream(landmark)
    /\ returned.op = "update"

\* C28: the average is the sum accumulator divided by the count accumulator,
\* whatever the query time (it is sum(t) / count(t) for every t whose
\* normalizing factor is positive); update_landmark leaves it as it was; with
\* no item accumulated it is NaN.
C28_Average ==
    /\ [](/\ basic_average = FDiv(aggregator.sum, aggregator.count)
          /\ \A t \in ItemTimes :
                 FGt(fd_normalizing_factor(t), FromInt(0)) =>
                     FDiv(basic_sum(t), basic_count(t)) = basic_average
          /\ items = <<>> => basic_average = NaN)
    /\ [][BasicUpdateLandmark => basic_average' = basic_average]_vars

\* The landmark was moved under an aggregator that holds items, and the
\* average is a number.
C28_Witness ==
    /\ returned.op = "update_landmark"
    /\ returned.old # landmark
    /\ Len(items) >= 2
    /\ basic_average # NaN
    /\ basic_average.den # 0

\* C29: after updates since the last reset the min retained is an item seen
\* whose static weighted value is the smallest of the items seen, the max one
\* whose static weighted value is the largest; with no items both are absent.
\* For Scenario B the min is (3 s, 3.0) and the max is (7 s, 8.0).
C29_MinMaxRetained ==
    /\ items = <<>> => (minmax_min = <<>> /\ minmax_max = <<>>)
    /\ items # <<>> =>
           /\ Len(minmax_min) = 1
           /\ Len(minmax_max) = 1
           /\ minmax_min[1] \in Range(items)
           /\ minmax_max[1] \in Range(items)
           /\ \A x \in Range(items) :
                  /\ FLe(fd_static_weighted_value(minmax_min[1]), fd_static_weighted_value(x))
                  /\ FGe(fd_static_weighted_value(minmax_max[1]), fd_static_weighted_value(x))
    /\ (g = "Polynomial" /\ items = ScenarioStream(landmark)) =>
           /\ minmax_min = <<<<landmark + 3, 3>>>>
           /\ minmax_max = <<<<landmark + 7, 8>>>>

\* The MinMax aggregator was updated with the stream of Scenario B under
\* g(n) = n^2; the item with the largest raw value is not the only candidate.
C29_Witness ==
    /\ g = "Polynomial"
    /\ items = ScenarioStream(landmark)
    /\ min_max.tag = "Both"

\* C30: an update never replaces the retained min, or the retained max, by an
\* item of equal static weighted value.
C30_TieKeepsExisting ==
    [][(Len(items') = Len(items) + 1 /\ min_max.tag # "Neither") =>
           /\ (minmax_min' # minmax_min =>
                   fd_static_weighted_value(minmax_min[1])
                       # fd_static_weighted_value((minmax_min')[1]))
           /\ (minmax_max' # minmax_max =>
                   fd_static_weighted_value(minmax_max[1])
                       # fd_static_weighted_value((minmax_max')[1]))]_vars

\* C34: the lookup map and the rank structure agree: every key of the map has
\* exactly one entry in the rank structure, with the map's (count, error); every
\* entry of the rank structure belongs to a key of the map and carries the
\* map's (count, error); no key has two entries.
C34_MapMirrorsRank ==
    /\ \A x \in DOMAIN elements : entries(x) = {NewCounter(x, elements[x])}
    /\ \A c \in counts : c.element \in DOMAIN elements /\ key(c) = elements[c.element]
    /\ \A c, d \in counts : c.element = d.element => c = d

\* The sum of the counts of a set of counters.
RECURSIVE SumOfCounts(_)
SumOfCounts(set) ==
    IF set = {} THEN 0
    ELSE LET c == CHOOSE x \in set : TRUE IN c.count + SumOfCounts(set \ {c})

\* C35: the counts of the tracked counters add up to the decayed hit total, in
\* the lookup map and in the rank structure.
C35_CountsAddUpToHits ==
    /\ SumOfCounts({NewCounter(x, elements[x]) : x \in DOMAIN elements}) = hits
    /\ SumOfCounts(counts) = hits

\* C36: a hit changes the counter of the key hit and, when it evicts, removes
\* the victim; every other tracked key stays tracked with the same count and
\* error in the lookup map and with the same entries in the rank structure.
C36_HitLeavesOthersAlone ==
    [][nhits' = nhits + 1 =>
           LET touched == {last'.element} \cup
                          (IF last'.case = "evict" THEN {last'.min.element} ELSE {})
           IN  \A x \in (DOMAIN elements) \ touched :
                   /\ x \in DOMAIN elements'
                   /\ elements'[x] = elements[x]
                   /\ {c \in counts' : c.element = x} = {c \in counts : c.element = x}]_vars

\* C37: under exponential decay update_landmark leaves the outcome of
\* frequent(phi) as it was, the keys returned and the guaranteed flag, for every
\* phi.
C37_RescaleKeepsFrequent ==
    [][rescales' = rescales + 1 => \A phi \in Phis : frequent(phi)' = frequent(phi)]_vars


\* The items a MinMaxAggregator::new under the current decay model retains
\* after updates with the items of q.
RECURSIVE retained(_)
retained(q) ==
    IF q = <<>> THEN Neither
    ELSE minmax_update(retained(SubSeq(q, 1, Len(q) - 1)), q[Len(q)])

\* The branches of a SignAggregator::new under the current decay models after
\* updates with the items of q.
RECURSIVE routed(_)
routed(q) ==
    IF q = <<>> THEN [positive |-> NewAggregator, negative |-> NewBranch(negative.landmark)]
    ELSE LET r == routed(SubSeq(q, 1, Len(q) - 1))
             item == q[Len(q)]
         IN  IF is_sign_positive(item)
             THEN [r EXCEPT !.positive = basic_update(@, item)]
             ELSE [r EXCEPT !.negative = branch_update(@, item)]

\* C31: reset(l) leaves an aggregator of any type as new(decay with landmark l)
\* does: the landmark is l, sum and count are 0, min and max are absent; and
\* after the updates that follow, the aggregator is in the state a newly
\* constructed one is in after the same updates.
C31_ResetIsNew ==
    /\ returned.op = "reset" =>
           /\ landmark = returned.timestamp
           /\ kind = "BasicAggregator" =>
                  aggregator.sum = FromInt(0) /\ aggregator.count = FromInt(0)
           /\ kind = "MinMaxAggregator" => minmax_min = <<>> /\ minmax_max = <<>>
           /\ kind = "SignAggregator" =>
                  /\ aggregator.sum = FromInt(0) /\ aggregator.count = FromInt(0)
                  /\ negative.sum = FromInt(0) /\ negative.count = FromInt(0)
                  /\ negative.landmark = returned.timestamp
    /\ kind = "BasicAggregator" => aggregator = accumulated(items)
    /\ kind = "MinMaxAggregator" => min_max = retained(items)
    /\ kind = "SignAggregator" =>
           aggregator = routed(items).positive /\ negative = routed(items).negative

\* A SignAggregator was reset while it held items and then updated on both
\* branches.
C31_Witness ==
    /\ kind = "SignAggregator"
    /\ dropped
    /\ returned.op = "update"
    /\ Len(items) >= 2
    /\ aggregator.count # FromInt(0)
    /\ negative.count # FromInt(0)
    /\ negative.landmark = landmark

\* C32: an update of a SignAggregator goes to the positive branch when the
\* item's value is >= 0 and to the negative branch otherwise; that branch is
\* updated as a BasicAggregator is and the other branch is left as it was.
C32_RoutesByValue ==
    [][(kind = "SignAggregator" /\ Len(items') = Len(items) + 1) =>
           LET item == items'[Len(items')]
           IN  IF FGe(value(item), FromInt(0))
               THEN aggregator' = basic_update(aggregator, item) /\ negative' = negative
               ELSE negative' = branch_update(negative, item) /\ aggregator' = aggregator]_vars

\* C33 as stated: update_landmark of a SignAggregator divides the sum and the
\* count of both branches by the same factor g(elapsed age) and moves both
\* landmarks to the new one.
C33_BothBranchesSameFactor ==
    [][(kind = "SignAggregator" /\ rescales' = rescales + 1) =>
           LET factor == g_invoke(g, landmark' - landmark)
           IN  /\ aggregator'.sum = FDiv(aggregator.sum, factor)
               /\ aggregator'.count = FDiv(aggregator.count, factor)
               /\ negative'.sum = FDiv(negative.sum, factor)
               /\ negative'.count = FDiv(negative.count, factor)
               /\ negative'.landmark = landmark']_vars

\* C33 as amended: update_landmark of a SignAggregator divides the sum and the
\* count of each branch by g(new landmark - that branch's landmark) and moves
\* both landmarks to the new one.
C33_EachBranchOwnFactor ==
    [][(kind = "SignAggregator" /\ rescales' = rescales + 1) =>
           LET factor == g_invoke(g, landmark' - landmark)
               factor_negative == g_invoke(g, landmark' - negative.landmark)
           IN  /\ aggregator'.sum = FDiv(aggregator.sum, factor)
               /\ aggregator'.count = FDiv(aggregator.count, factor)
               /\ negative'.sum = FDiv(negative.sum, factor_negative)
               /\ negative'.count = FDiv(negative.count, factor_negative)
               /\ negative'.landmark = landmark']_vars

\* The landmark of a SignAggregator was moved while both branches held items
\* and stood on different landmarks.
C33_Witness ==
    /\ kind = "SignAggregator"
    /\ returned.op = "update_landmark"
    /\ returned.old # returned.old_negative
    /\ returned.old # returned.timestamp
    /\ aggregator.sum # FromInt(0)
    /\ negative.sum # FromInt(0)
    /\ negative.landmark = landmark

====
